---- MODULE Spec2Model ----
(***************************************************************************)
(* Model of the iCal-to-JSON Cloudflare worker (src/src/index.js):         *)
(* validateApiKey, the fetch handler, parseICS / formatEvent /             *)
(* parseICSDate and createGroupedEvents.                                   *)
(*                                                                         *)
(* Time.  An instant is an integer number of ticks; a calendar day has     *)
(* TicksPerDay ticks.  Tick 0 of a day is 00:00:00.000 and tick            *)
(* TicksPerDay-1 is 23:59:59.999 (luxon's endOf('day')).  A zone is a      *)
(* fixed offset in ticks (no DST); a luxon DateTime is [ts, zone].  An ISO *)
(* string is [loc, off]: the wall-clock reading and the offset printed     *)
(* after it.  Calendar dates (toISODate) are day numbers; the zero-padded  *)
(* ISO date strings of the code order exactly as these numbers do.         *)
(*                                                                         *)
(* Strings.  A string is a sequence of tokens (Str); the separators the    *)
(* code splits on (":", ";", "_", " ", TAB) are tokens of their own, and a *)
(* token that contains another as a prefix is written as two tokens        *)
(* ("VALUE=DATE", "-TIME"), so that startsWith / includes / split are      *)
(* computed on the text and not assumed.                                   *)
(***************************************************************************)
EXTENDS Integers, Sequences, FiniteSets, TLC

VARIABLES pc, env, request, nowTs, days, timezone, icsText, events,
          response, trace

vars == <<pc, env, request, nowTs, days, timezone, icsText, events,
          response, trace>>

(***************************************************************************)
(* Bounds of the model.                                                    *)
(***************************************************************************)
TicksPerDay == 3
MaxDay == 4
MaxDays == 2
MaxEvents == 3
MaxLines == 4

(***************************************************************************)
(* Strings                                                                 *)
(***************************************************************************)
\* String.prototype.split(sep) for a one-token separator: the pieces between
\* the occurrences of sep (one piece, possibly empty, when there is none).
RECURSIVE SplitFrom(_, _, _, _)
SplitFrom(str, sep, i, piece) ==
    IF i > Len(str) THEN <<piece>>
    ELSE IF str[i] = sep
         THEN <<piece>> \o SplitFrom(str, sep, i + 1, <<>>)
         ELSE SplitFrom(str, sep, i + 1, Append(piece, str[i]))

SplitStr(str, sep) == SplitFrom(str, sep, 1, <<>>)

\* Array.prototype.join(sep).
RECURSIVE JoinFrom(_, _, _)
JoinFrom(parts, sep, i) ==
    IF i > Len(parts) THEN <<>>
    ELSE IF i = Len(parts) THEN parts[i]
    ELSE parts[i] \o <<sep>> \o JoinFrom(parts, sep, i + 1)

JoinStr(parts, sep) == JoinFrom(parts, sep, 1)

StartsWith(str, prefix) ==
    /\ Len(str) >= Len(prefix)
    /\ SubSeq(str, 1, Len(prefix)) = prefix

Includes(str, sub) ==
    \E i \in 1..(Len(str) - Len(sub) + 1) : SubSeq(str, i, i + Len(sub) - 1) = sub

Whitespace == {" ", "TAB", "CR"}

RECURSIVE TrimStart(_)
TrimStart(str) ==
    IF str # <<>> /\ Head(str) \in Whitespace THEN TrimStart(Tail(str)) ELSE str

RECURSIVE TrimEnd(_)
TrimEnd(str) ==
    IF str # <<>> /\ str[Len(str)] \in Whitespace
    THEN TrimEnd(SubSeq(str, 1, Len(str) - 1))
    ELSE str

Trim(str) == TrimEnd(TrimStart(str))

Slice(str, n) == SubSeq(str, 1, IF Len(str) < n THEN Len(str) ELSE n)

(***************************************************************************)
(* luxon DateTime                                                          *)
(***************************************************************************)
\* The zone DateTime.now() and DateTime.fromISO() produce (Workers run in UTC).
SystemZone == "UTC"

\* The target timezones a request may name, and their offsets in ticks.
Zones == {"America/New_York", "UTC", "Pacific/Auckland"}

ZoneOffset(zone) ==
    CASE zone = "America/New_York" -> -1
      [] zone = "Pacific/Auckland" -> 1
      [] OTHER -> 0

DateTimeOf(ts, zone) == [ts |-> ts, zone |-> zone]

setZone(dt, zone) == [dt EXCEPT !.zone = zone]

LocalTick(dt) == dt.ts + ZoneOffset(dt.zone)

\* Time of day: the wall-clock tick within its calendar day.
TickOfDay(dt) == LocalTick(dt) % TicksPerDay

toISODate(dt) == (LocalTick(dt) - TickOfDay(dt)) \div TicksPerDay

startOfDay(dt) == [dt EXCEPT !.ts = dt.ts - TickOfDay(dt)]

endOfDay(dt) == [dt EXCEPT !.ts = (dt.ts - TickOfDay(dt)) + (TicksPerDay - 1)]

plusDays(dt, n) == [dt EXCEPT !.ts = dt.ts + n * TicksPerDay]

toISO(dt) == [loc |-> LocalTick(dt), off |-> ZoneOffset(dt.zone)]

fromISO(iso) == DateTimeOf(iso.loc - iso.off, SystemZone)

\* DateTime.utc(year, month, day, hour, minute, second)
DateTimeUtc(day, tick) == DateTimeOf(day * TicksPerDay + tick, "UTC")

\* DateTime.now()
DateTimeNow(clock) == DateTimeOf(clock, SystemZone)

(***************************************************************************)
(* createGroupedEvents                                                     *)
(***************************************************************************)
Push(grouped, dateKey, segment) ==
    IF dateKey \in DOMAIN grouped
    THEN [grouped EXCEPT ![dateKey] = Append(@, segment)]
    ELSE grouped @@ (dateKey :> <<segment>>)

\* SubsequentDays with the loop bound currentDate < end: an event that ends
\* at midnight loses its last day.
RECURSIVE SubsequentDays_StrictEnd(_, _, _, _, _, _)
SubsequentDays_StrictEnd(grouped, currentDate, event, end, endDate, tz) ==
    IF currentDate.ts < end.ts /\ currentDate.ts < endDate.ts
    THEN SubsequentDays_StrictEnd(
            Push(grouped, toISODate(currentDate),
                 [title |-> event.title,
                  start |-> toISO(currentDate),
                  end |-> IF toISODate(currentDate) = toISODate(end)
                          THEN toISO(end)
                          ELSE toISO(endOfDay(currentDate)),
                  description |-> event.description,
                  isFullDay |-> event.isAllDay,
                  crossDay |-> TRUE,
                  timezone |-> tz]),
            plusDays(currentDate, 1), event, end, endDate, tz)
    ELSE grouped

\* The while loop that adds a midnight-crossing event to its subsequent days.
RECURSIVE SubsequentDays(_, _, _, _, _, _)
SubsequentDays(grouped, currentDate, event, end, endDate, tz) ==
    IF currentDate.ts <= end.ts /\ currentDate.ts < endDate.ts
    THEN SubsequentDays(
            Push(grouped, toISODate(currentDate),
                 [title |-> event.title,
                  start |-> toISO(currentDate),
                  end |-> IF toISODate(currentDate) = toISODate(end)
                          THEN toISO(end)
                          ELSE toISO(endOfDay(currentDate)),
                  description |-> event.description,
                  isFullDay |-> event.isAllDay,
                  crossDay |-> TRUE,
                  timezone |-> tz]),
            plusDays(currentDate, 1), event, end, endDate, tz)
    ELSE grouped

\* GroupEvent without the "starts after endDate" skip.
GroupEvent_NoEndSkip(grouped, event, now, endDate, tz) ==
    LET start == setZone(fromISO(event.start), tz)
        end == setZone(fromISO(event.end), tz)
        startDay == toISODate(start)
        endDay == toISODate(end)
        crossDay == startDay # endDay
        first == Push(grouped, startDay,
                      [title |-> event.title,
                       start |-> toISO(start),
                       end |-> IF crossDay THEN toISO(endOfDay(start))
                               ELSE toISO(end),
                       description |-> event.description,
                       isFullDay |-> event.isAllDay,
                       crossDay |-> crossDay,
                       timezone |-> tz])
    IN  IF end.ts < now.ts THEN grouped
        ELSE IF crossDay
             THEN SubsequentDays(first, startOfDay(plusDays(start, 1)),
                                 event, end, endDate, tz)
             ELSE first

\* The body of events.forEach.
GroupEvent(grouped, event, now, endDate, tz) ==
    LET start == setZone(fromISO(event.start), tz)
        end == setZone(fromISO(event.end), tz)
        startDay == toISODate(start)
        endDay == toISODate(end)
        crossDay == startDay # endDay
        first == Push(grouped, startDay,
                      [title |-> event.title,
                       start |-> toISO(start),
                       end |-> IF crossDay THEN toISO(endOfDay(start))
                               ELSE toISO(end),
                       description |-> event.description,
                       isFullDay |-> event.isAllDay,
                       crossDay |-> crossDay,
                       timezone |-> tz])
    IN  IF end.ts < now.ts THEN grouped
        ELSE IF start.ts > endDate.ts THEN grouped
        ELSE IF crossDay
             THEN SubsequentDays(first, startOfDay(plusDays(start, 1)),
                                 event, end, endDate, tz)
             ELSE first

RECURSIVE GroupAll(_, _, _, _, _, _)
GroupAll(grouped, evts, i, now, endDate, tz) ==
    IF i > Len(evts) THEN grouped
    ELSE GroupAll(GroupEvent(grouped, evts[i], now, endDate, tz),
                  evts, i + 1, now, endDate, tz)

\* The comparator without the all-day-first cases.
CompareSegments_StartOnly(a, b) ==
    IF fromISO(a.start).ts < fromISO(b.start).ts THEN -1 ELSE 1

\* The comparator with a non-strict comparison of the start instants.
CompareSegments_TieFirst(a, b) ==
    IF a.isFullDay /\ ~b.isFullDay THEN -1
    ELSE IF ~a.isFullDay /\ b.isFullDay THEN 1
    ELSE IF fromISO(a.start).ts <= fromISO(b.start).ts THEN -1 ELSE 1

\* The comparator handed to Array.prototype.sort: negative when a goes first.
CompareSegments(a, b) ==
    IF a.isFullDay /\ ~b.isFullDay THEN -1
    ELSE IF ~a.isFullDay /\ b.isFullDay THEN 1
    ELSE IF fromISO(a.start).ts < fromISO(b.start).ts THEN -1 ELSE 1

\* V8's Array.prototype.sort on a short array: binary insertion, the pivot
\* going left of arr[mid] only when the comparator is negative.  (V8 first
\* takes the leading run, reversing it when strictly descending; with this
\* comparator that gives the order binary insertion from the start gives.)
RECURSIVE InsertionPoint(_, _, _, _)
InsertionPoint(sorted, pivot, left, right) ==
    IF left < right
    THEN LET mid == left + ((right - left) \div 2)
         IN  IF CompareSegments(pivot, sorted[mid + 1]) < 0
             THEN InsertionPoint(sorted, pivot, left, mid)
             ELSE InsertionPoint(sorted, pivot, mid + 1, right)
    ELSE left

InsertAt(seq, k, x) == SubSeq(seq, 1, k) \o <<x>> \o SubSeq(seq, k + 1, Len(seq))

RECURSIVE ArraySort(_, _, _)
ArraySort(arr, sorted, i) ==
    IF i > Len(arr) THEN sorted
    ELSE ArraySort(arr,
                   InsertAt(sorted,
                            InsertionPoint(sorted, arr[i], 0, Len(sorted)),
                            arr[i]),
                   i + 1)

SortBuckets(grouped) ==
    [date \in DOMAIN grouped |-> ArraySort(grouped[date], <<>>, 1)]

\* Object.entries(groupedByDate).sort(localeCompare).map(...)
RECURSIVE AgendaOf(_, _)
AgendaOf(grouped, dates) ==
    IF dates = {} THEN <<>>
    ELSE LET d == CHOOSE x \in dates : \A y \in dates : x <= y
         IN  <<[date |-> d, events |-> grouped[d]]>>
             \o AgendaOf(grouped, dates \ {d})

\* new URL(url).hostname, or 'unknown' when the URL does not parse.
IsValidUrl(url) ==
    /\ Len(url) >= 4
    /\ url[1] \in {"https", "http", "webcal"}
    /\ url[2] = ":"
    /\ url[3] = "//"

getCalendarDomain(url) == IF IsValidUrl(url) THEN url[4] ELSE "unknown"

EmptyGrouped == [d \in {} |-> <<>>]

createGroupedEvents(evts, nDays, tz, requestUrl, clock) ==
    LET now == startOfDay(setZone(DateTimeNow(clock), tz))
        endDate == plusDays(now, nDays)
        groupedByDate == SortBuckets(GroupAll(EmptyGrouped, evts, 1, now, endDate, tz))
    IN  [agenda |-> AgendaOf(groupedByDate, DOMAIN groupedByDate),
         timezone |-> tz,
         request |-> [calendar |-> getCalendarDomain(requestUrl),
                      days |-> nDays,
                      requestedTimezone |-> tz]]

(***************************************************************************)
(* parseICS, formatEvent, parseICSDate                                     *)
(***************************************************************************)
\* ics.split(/\r?\n/): the text is cut at every LF, and a CR right before
\* the LF goes with it.
StripCR(piece) ==
    IF piece # <<>> /\ piece[Len(piece)] = "CR"
    THEN SubSeq(piece, 1, Len(piece) - 1)
    ELSE piece

SplitLines(ics) ==
    LET pieces == SplitStr(ics, "LF")
    IN  [i \in DOMAIN pieces |->
            IF i < Len(pieces) THEN StripCR(pieces[i]) ELSE pieces[i]]

\* The date and time-of-day digit groups a DTSTART / DTEND value is made of.
DateTokens == {"20240301", "20240302", "20240303", "20240304", "20240305"}

DayOfDate(tok) ==
    CASE tok = "20240301" -> 1
      [] tok = "20240302" -> 2
      [] tok = "20240303" -> 3
      [] tok = "20240304" -> 4
      [] tok = "20240305" -> 5
      [] OTHER -> 0

TimeTokens == {"000000", "120000"}

TickOfTime(tok) == IF tok = "120000" THEN 1 ELSE 0

\* String.prototype.replace('Z', ''): the first "Z" goes, wherever it is.
RECURSIVE RemoveFirst(_, _)
RemoveFirst(str, tok) ==
    IF str = <<>> THEN <<>>
    ELSE IF Head(str) = tok THEN Tail(str)
    ELSE <<Head(str)>> \o RemoveFirst(Tail(str), tok)

\* /^(\d{4})(\d{2})(\d{2})$/
MatchesDate(str) == Len(str) = 1 /\ str[1] \in DateTokens

\* /^(\d{4})(\d{2})(\d{2})T?(\d{2})?(\d{2})?(\d{2})?$/
MatchesDateTime(str) ==
    /\ Len(str) \in 1..3
    /\ str[1] \in DateTokens
    /\ \/ Len(str) = 1
       \/ Len(str) = 2 /\ str[2] \in TimeTokens \cup {"T"}
       \/ Len(str) = 3 /\ str[2] = "T" /\ str[3] \in TimeTokens

parseICSDate(icsDate, isAllDay, clock) ==
    LET d == RemoveFirst(icsDate, "Z")
    IN  IF icsDate = <<>> THEN DateTimeNow(clock)
        ELSE IF isAllDay /\ MatchesDate(d) THEN DateTimeUtc(DayOfDate(d[1]), 0)
        ELSE IF MatchesDateTime(d)
        THEN DateTimeUtc(DayOfDate(d[1]),
                         IF d[Len(d)] \in TimeTokens THEN TickOfTime(d[Len(d)]) ELSE 0)
        ELSE DateTimeNow(clock)

\* A raw event: the properties stored so far and the all-day flag.
NewEvent == [props |-> [k \in {} |-> <<>>], isAllDay |-> FALSE]

\* event[name], the empty string standing for a property never stored.
Prop(event, name) ==
    IF name \in DOMAIN event.props THEN event.props[name] ELSE <<>>

formatEvent(event, clock) ==
    LET start == parseICSDate(Prop(event, <<"DTSTART">>), event.isAllDay, clock)
        end == parseICSDate(IF Prop(event, <<"DTEND">>) # <<>>
                            THEN Prop(event, <<"DTEND">>)
                            ELSE Prop(event, <<"DTSTART">>),
                            event.isAllDay, clock)
    IN  [title |-> Prop(event, <<"SUMMARY">>),
         start |-> toISO(start),
         end |-> toISO(end),
         description |-> Prop(event, <<"DESCRIPTION">>),
         isAllDay |-> event.isAllDay]

\* StoreProperty keeping the first value of a repeated property.
StoreProperty_FirstWins(event, line) ==
    LET pieces == SplitStr(line, ":")
        key == pieces[1]
        valueParts == Tail(pieces)
        value == Trim(JoinStr(valueParts, ":"))
        keyParts == SplitStr(key, ";")
        mainKey == Trim(keyParts[1])
        allDay == \E i \in DOMAIN keyParts : Includes(keyParts[i], <<"VALUE=DATE">>)
    IN  IF key # <<>> /\ Len(valueParts) > 0
        THEN [props |-> [k \in DOMAIN event.props \cup {mainKey} |->
                            IF k \in DOMAIN event.props THEN event.props[k] ELSE value],
              isAllDay |-> event.isAllDay \/ allDay]
        ELSE event

\* The property branch of the line loop: key:value stored into the open event.
StoreProperty(event, line) ==
    LET pieces == SplitStr(line, ":")
        key == pieces[1]
        valueParts == Tail(pieces)
        value == Trim(JoinStr(valueParts, ":"))
        keyParts == SplitStr(key, ";")
        mainKey == Trim(keyParts[1])
        allDay == \E i \in DOMAIN keyParts : Includes(keyParts[i], <<"VALUE=DATE">>)
    IN  IF key # <<>> /\ Len(valueParts) > 0
        THEN [props |-> [k \in DOMAIN event.props \cup {mainKey} |->
                            IF k = mainKey THEN value ELSE event.props[k]],
              isAllDay |-> event.isAllDay \/ allDay]
        ELSE event

\* The body of lines.forEach; st = [events, open, event].
ParseLine(st, line, clock) ==
    IF StartsWith(line, <<"BEGIN", ":", "VEVENT">>)
    THEN [st EXCEPT !.open = TRUE, !.event = NewEvent]
    ELSE IF StartsWith(line, <<"END", ":", "VEVENT">>)
    THEN [events |-> IF st.open THEN Append(st.events, formatEvent(st.event, clock))
                     ELSE st.events,
          open |-> FALSE,
          event |-> NewEvent]
    ELSE IF st.open
    THEN [st EXCEPT !.event = StoreProperty(st.event, line)]
    ELSE st

RECURSIVE ParseLines(_, _, _, _)
ParseLines(st, lines, i, clock) ==
    IF i > Len(lines) THEN st
    ELSE ParseLines(ParseLine(st, lines[i], clock), lines, i + 1, clock)

parseICS(ics, clock) ==
    ParseLines([events |-> <<>>, open |-> FALSE, event |-> NewEvent],
               SplitLines(ics), 1, clock).events

(***************************************************************************)
(* validateApiKey                                                          *)
(***************************************************************************)
\* The expiry strings a key may carry that DateTime.fromFormat(expiry,
\* 'yyyy-MM-dd') accepts, and the calendar day each names.  Any other string
\* ("2024-02-30", "soon", the empty string) gives an invalid DateTime.
ExpiryDates == {"2024-03-01", "2024-03-02", "2024-03-03"}

DayOfExpiry(tok) ==
    CASE tok = "2024-03-01" -> 1
      [] tok = "2024-03-02" -> 2
      [] tok = "2024-03-03" -> 3
      [] OTHER -> 0

ExpiryIsValid(expiry) == Len(expiry) = 1 /\ expiry[1] \in ExpiryDates

\* DateTime.fromFormat(expiry, 'yyyy-MM-dd'): midnight of that date in the
\* system zone.
fromFormat(expiry) ==
    DateTimeOf(DayOfExpiry(expiry[1]) * TicksPerDay - ZoneOffset(SystemZone),
               SystemZone)

\* crypto.subtle.sign('HMAC', key, message), hex-encoded and cut to 8
\* characters: a deterministic digest of the key bytes and the message, over
\* a small range (so that two messages can collide, as 32 bits can).
TokenCode(tok) ==
    CASE tok = "stucal" -> 1
      [] tok = "calstu" -> 2
      [] tok = "_" -> 3
      [] tok = "r1" -> 5
      [] tok = "2024-03-01" -> 7
      [] tok = "2024-03-02" -> 8
      [] tok = "2024-03-03" -> 10
      [] tok = "2024-02-30" -> 11
      [] tok = "soon" -> 13
      [] tok = "a" -> 1
      [] tok = "b" -> 2
      [] tok = "c" -> 3
      [] tok = "d" -> 4
      [] tok = "z" -> 6
      [] OTHER -> 0

RECURSIVE Digest(_, _)
Digest(str, i) ==
    IF i > Len(str) THEN 0 ELSE i * TokenCode(str[i]) + Digest(str, i + 1)

HexDigests == <<"1f3a9c0e", "7b20d4aa", "c05e66f1", "e9d81b37">>

HmacSha256Hex8(keyData, messageData) ==
    <<HexDigests[((3 * Digest(keyData, 1) + Digest(messageData, 1)) % Len(HexDigests)) + 1]>>

NoKeyMessage == <<"No API key provided", " in header or URL parameters">>

Returned(value) == [ok |-> value, error |-> <<>>]

Thrown(message) == [ok |-> FALSE, error |-> message]

IsDevelopment(e) == e.ENVIRONMENT = "development" \/ e.NODE_ENV = "development"

\* validateApiKey with the expiry check left out.
validateApiKey_NoExpiry(apiKey, e, req, clock) ==
    LET key == IF apiKey = <<>> THEN req.paramKey ELSE apiKey
        parts == SplitStr(key, "_")
    IN  IF IsDevelopment(e) THEN Returned(TRUE)
        ELSE IF e.MASTER_KEY = <<>>
        THEN Thrown(<<"Server configuration error: Authentication is not properly configured">>)
        ELSE IF key = <<>> THEN Thrown(NoKeyMessage)
        ELSE IF Len(parts) # 4 THEN Thrown(<<"Invalid API key format">>)
        ELSE IF parts[1] # <<"stucal">> THEN Thrown(<<"Invalid API key prefix">>)
        ELSE IF ~ExpiryIsValid(parts[3])
        THEN Thrown(<<"Invalid expiry date format in API key">>)
        ELSE IF HmacSha256Hex8(Slice(e.MASTER_KEY, 3),
                               JoinStr(<<parts[1], parts[2], parts[3]>>, "_"))
                # parts[4]
        THEN Thrown(<<"Invalid API key signature">>)
        ELSE Returned(TRUE)

\* The outcome of validateApiKey: a returned value, or the error thrown.
validateApiKey(apiKey, e, req, clock) ==
    LET key == IF apiKey = <<>> THEN req.paramKey ELSE apiKey
        parts == SplitStr(key, "_")
    IN  IF IsDevelopment(e) THEN Returned(TRUE)
        ELSE IF e.MASTER_KEY = <<>>
        THEN Thrown(<<"Server configuration error: Authentication is not properly configured">>)
        ELSE IF key = <<>> THEN Thrown(NoKeyMessage)
        ELSE IF Len(parts) # 4 THEN Thrown(<<"Invalid API key format">>)
        ELSE IF parts[1] # <<"stucal">> THEN Thrown(<<"Invalid API key prefix">>)
        ELSE IF ~ExpiryIsValid(parts[3])
        THEN Thrown(<<"Invalid expiry date format in API key">>)
        ELSE IF fromFormat(parts[3]).ts < DateTimeNow(clock).ts
        THEN Thrown(<<"API key has expired">>)
        ELSE IF HmacSha256Hex8(Slice(e.MASTER_KEY, 3),
                               JoinStr(<<parts[1], parts[2], parts[3]>>, "_"))
                # parts[4]
        THEN Thrown(<<"Invalid API key signature">>)
        ELSE Returned(TRUE)

(***************************************************************************)
(* State of one run of the worker.                                         *)
(***************************************************************************)
NoResponse == [status |-> 0, kind |-> "none", error |-> <<>>, body |-> <<>>]

NoRequest == [method |-> "GET", headerKey |-> <<>>, paramKey |-> <<>>,
              url |-> <<>>, days |-> <<>>, timezone |-> "", startFrom |-> <<>>]

NoEnv == [ENVIRONMENT |-> "production", NODE_ENV |-> "", MASTER_KEY |-> <<>>]

\* The clock: any instant of day 2.
NowSet == (2 * TicksPerDay) .. (3 * TicksPerDay - 1)

(***************************************************************************)
(* The fetch handler                                                       *)
(***************************************************************************)
NaN == [nan |-> TRUE, n |-> 0]

Number(n) == [nan |-> FALSE, n |-> n]

Digits == {"0", "1", "2", "3", "7"}

DigitValue(tok) ==
    CASE tok = "1" -> 1
      [] tok = "2" -> 2
      [] tok = "3" -> 3
      [] tok = "7" -> 7
      [] OTHER -> 0

\* The value of the longest run of digits str starts with at position i.
RECURSIVE DigitRun(_, _, _)
DigitRun(str, i, acc) ==
    IF i <= Len(str) /\ str[i] \in Digits
    THEN DigitRun(str, i + 1, 10 * acc + DigitValue(str[i]))
    ELSE acc

\* parseInt(param): leading whitespace skipped, an optional sign, then the
\* leading digits; NaN when there are none (or the parameter is absent).
parseInt(param) ==
    LET str == TrimStart(param)
        signed == str # <<>> /\ Head(str) \in {"-", "+"}
        body == IF signed THEN Tail(str) ELSE str
    IN  IF body = <<>> \/ body[1] \notin Digits THEN NaN
        ELSE IF signed /\ Head(str) = "-" THEN Number(0 - DigitRun(body, 1, 0))
        ELSE Number(DigitRun(body, 1, 0))

DefaultDays == 7

\* parseInt(url.searchParams.get('days')) || 7
DaysOf(req) ==
    LET parsed == parseInt(req.days)
    IN  IF parsed.nan \/ parsed.n = 0 THEN DefaultDays ELSE parsed.n

\* url.searchParams.get('timezone') || 'UTC'
TimezoneOf(req) == IF req.timezone = "" THEN "UTC" ELSE req.timezone

ErrorResponse(status, message) ==
    [status |-> status, kind |-> "error", error |-> message, body |-> <<>>]

\* await validateApiKey(...) returned true.
ValidateOk ==
    /\ pc = "start"
    /\ validateApiKey(request.headerKey, env, request, nowTs).ok
    /\ pc' = "authorized"
    /\ trace' = Append(trace, "validateApiKey:true")
    /\ UNCHANGED <<env, request, nowTs, days, timezone, icsText, events, response>>

\* await validateApiKey(...) threw: 401 when no key was provided, else 403.
ValidateFail ==
    /\ pc = "start"
    /\ ~validateApiKey(request.headerKey, env, request, nowTs).ok
    /\ pc' = "done"
    /\ trace' = Append(trace, "validateApiKey:throw")
    /\ LET message == validateApiKey(request.headerKey, env, request, nowTs).error
       IN  response' = ErrorResponse(
               IF Includes(message, <<"No API key provided">>) THEN 401 ELSE 403,
               message)
    /\ UNCHANGED <<env, request, nowTs, days, timezone, icsText, events>>

\* The CORS preflight answered without waiting for the validation.
Preflight_BeforeAuth ==
    /\ pc \in {"start", "authorized"}
    /\ request.method = "OPTIONS"
    /\ pc' = "done"
    /\ trace' = Append(trace, "preflight")
    /\ response' = [status |-> 200, kind |-> "preflight", error |-> <<>>, body |-> <<>>]
    /\ UNCHANGED <<env, request, nowTs, days, timezone, icsText, events>>

\* Handle CORS preflight requests.
Preflight ==
    /\ pc = "authorized"
    /\ request.method = "OPTIONS"
    /\ pc' = "done"
    /\ trace' = Append(trace, "preflight")
    /\ response' = [status |-> 200, kind |-> "preflight", error |-> <<>>, body |-> <<>>]
    /\ UNCHANGED <<env, request, nowTs, days, timezone, icsText, events>>

\* if (!icsUrl): 400.
MissingUrl ==
    /\ pc = "authorized"
    /\ request.method # "OPTIONS"
    /\ request.url = <<>>
    /\ pc' = "done"
    /\ days' = DaysOf(request)
    /\ timezone' = TimezoneOf(request)
    /\ response' = ErrorResponse(400, <<"Missing url parameter">>)
    /\ UNCHANGED <<env, request, nowTs, icsText, events, trace>>

\* fetch() accepts http(s) URLs only.
IsFetchable(url) == IsValidUrl(url) /\ url[1] \in {"https", "http"}

\* await fetch(icsUrl) threw (a URL that does not parse, an unreachable
\* host) or answered with a non-2xx status: the outer catch answers 500.
FetchFail ==
    /\ pc = "authorized"
    /\ request.method # "OPTIONS"
    /\ request.url # <<>>
    /\ pc' = "done"
    /\ days' = DaysOf(request)
    /\ timezone' = TimezoneOf(request)
    /\ trace' = Append(trace, "fetch")
    /\ response' = ErrorResponse(500, IF IsFetchable(request.url)
                                      THEN <<"Failed to fetch calendar">>
                                      ELSE <<"Invalid URL">>)
    /\ UNCHANGED <<env, request, nowTs, icsText, events>>

CalendarUrl == <<"https", ":", "//", "example.com", "/calendar.ics">>

\* The feeds the remote server may answer with.
EOLs == {<<"LF">>, <<"CR", "LF">>}

RECURSIVE JoinLines(_, _, _)
JoinLines(lines, eol, i) ==
    IF i > Len(lines) THEN <<>>
    ELSE lines[i] \o eol \o JoinLines(lines, eol, i + 1)

BeginLine == <<"BEGIN", ":", "VEVENT">>

EndLine == <<"END", ":", "VEVENT">>

FeedPool ==
    {JoinLines(lines, <<"CR", "LF">>, 1) : lines \in {
        <<>>,
        <<BeginLine, <<"SUMMARY", ":", "a">>,
          <<"DTSTART", ":", "20240302", "T", "120000", "Z">>,
          <<"DTEND", ":", "20240304", "T", "120000", "Z">>, EndLine>>,
        <<BeginLine, <<"SUMMARY", ":", "a">>,
          <<"DTSTART", ";", "VALUE=DATE", ":", "20240301">>,
          <<"DTEND", ";", "VALUE=DATE", ":", "20240302">>, EndLine,
          BeginLine, <<"SUMMARY", ":", "b">>,
          <<"DTSTART", ":", "20240303", "T", "000000", "Z">>, EndLine>>,
        <<BeginLine, <<"SUMMARY", ":", "a">>, <<" ", "b">>,
          <<"DTSTART", ":", "20240305">>, EndLine>>}}

\* const response = await fetch(icsUrl); response.ok; await response.text()
FetchOk ==
    /\ pc = "authorized"
    /\ request.method # "OPTIONS"
    /\ request.url # <<>>
    /\ IsFetchable(request.url)
    /\ pc' = "fetched"
    /\ days' = DaysOf(request)
    /\ timezone' = TimezoneOf(request)
    /\ trace' = Append(trace, "fetch")
    /\ icsText' \in FeedPool
    /\ UNCHANGED <<env, request, nowTs, events, response>>

\* parseICS(icsText); createGroupedEvents(...); the 200 response.
BuildAgenda ==
    /\ pc = "fetched"
    /\ pc' = "done"
    /\ events' = parseICS(icsText, nowTs)
    /\ trace' = trace \o <<"parseICS", "createGroupedEvents">>
    /\ response' = [status |-> 200, kind |-> "agenda", error |-> <<>>,
                    body |-> createGroupedEvents(parseICS(icsText, nowTs), days,
                                                 timezone, request.url, nowTs)]
    /\ UNCHANGED <<env, request, nowTs, days, timezone, icsText>>

\* A signed key that expires on the given date, under the given secret.
SignedKey(masterKey, expiry) ==
    <<"stucal", "_", "r1", "_", expiry, "_">>
    \o HmacSha256Hex8(Slice(masterKey, 3), <<"stucal", "_", "r1", "_", expiry>>)

MasterKeys == {<<>>, <<"a", "b", "c", "d">>, <<"a", "b", "z">>}

Init ==
    /\ pc = "start"
    /\ env \in [ENVIRONMENT : {"production", "development"},
                NODE_ENV : {""},
                MASTER_KEY : {<<>>, <<"a", "b", "c", "d">>}]
    /\ request \in [method : {"GET", "OPTIONS"},
                    headerKey : {<<>>,
                                 SignedKey(<<"a", "b", "c", "d">>, "2024-03-03"),
                                 SignedKey(<<"a", "b", "c", "d">>, "2024-03-01")},
                    paramKey : {<<>>, SignedKey(<<"a", "b", "z">>, "2024-03-03")},
                    url : {<<>>, <<"invalid-url">>, CalendarUrl},
                    days : {<<>>, <<"2">>, <<"0">>, <<"x">>, <<"-", "1">>},
                    timezone : {"", "America/New_York"},
                    startFrom : {<<>>, <<"now">>, <<"2024-03-01">>}]
    /\ nowTs \in {2 * TicksPerDay, 2 * TicksPerDay + 1}
    /\ days = 0
    /\ timezone = ""
    /\ icsText = <<>>
    /\ events = <<>>
    /\ response = NoResponse
    /\ trace = <<>>

Next ==
    \/ ValidateOk
    \/ ValidateFail
    \/ Preflight
    \/ MissingUrl
    \/ FetchFail
    \/ FetchOk
    \/ BuildAgenda

Spec == Init /\ [][Next]_vars

(***************************************************************************)
(* SpecAuth: validateApiKey applied to bounded keys, secrets and clocks.   *)
(***************************************************************************)
ApiKeys ==
    {<<>>, <<"stucal", "_", "r1", "_", "2024-03-03">>,
     <<"stucal", "_", "r1", "_", "2024-03-03", "_", "1f3a9c0e", "_", "r1">>,
     <<"stucal", "_", "_", "2024-03-03", "_", "c05e66f1">>}
    \cup {<<prefix, "_", "r1", "_", expiry, "_", sig>> :
            prefix \in {"stucal", "calstu"},
            expiry \in ExpiryDates \cup {"2024-02-30", "soon"},
            sig \in {HexDigests[i] : i \in DOMAIN HexDigests}}

InitAuth ==
    /\ pc = "start"
    /\ env \in [ENVIRONMENT : {"production", "development"},
                NODE_ENV : {"", "development"},
                MASTER_KEY : MasterKeys]
    /\ \E hk \in ApiKeys, pk \in {<<>>, SignedKey(<<"a", "b", "z">>, "2024-03-02")} :
          request = [NoRequest EXCEPT !.headerKey = hk, !.paramKey = pk]
    /\ nowTs \in NowSet
    /\ days = 0
    /\ timezone = ""
    /\ icsText = <<>>
    /\ events = <<>>
    /\ response = NoResponse
    /\ trace = <<>>

NextAuth == ValidateOk \/ ValidateFail

SpecAuth == InitAuth /\ [][NextAuth]_vars

(***************************************************************************)
(* SpecParse: parseICS applied to bounded feeds.                           *)
(***************************************************************************)
LinePool ==
    {BeginLine, EndLine,
     <<"SUMMARY", ":", "a">>,
     <<"SUMMARY", ":", "b">>,
     <<" ", "b">>,
     <<"TAB", "c", ":", "d">>,
     <<"DTSTART", ";", "VALUE=DATE", ":", "20240302">>,
     <<"DTSTART", ":", "20240302", "T", "120000", "Z">>,
     <<"DTEND", ";", "VALUE=DATE", "-TIME", ":", "20240303", "T", "000000">>}

Feeds ==
    {JoinLines(lines, eol, 1) :
        lines \in UNION {[1..n -> LinePool] : n \in 0..MaxLines}, eol \in EOLs}

InitParse ==
    /\ pc = "parse"
    /\ env = NoEnv
    /\ request = NoRequest
    /\ nowTs = 2 * TicksPerDay + 1
    /\ days = 0
    /\ timezone = ""
    /\ icsText \in Feeds
    /\ events = <<>>
    /\ response = NoResponse
    /\ trace = <<>>

ApplyParse ==
    /\ pc = "parse"
    /\ pc' = "parsed"
    /\ events' = parseICS(icsText, nowTs)
    /\ UNCHANGED <<env, request, nowTs, days, timezone, icsText, response, trace>>

NextParse == ApplyParse

SpecParse == InitParse /\ [][NextParse]_vars

(***************************************************************************)
(* SpecGroup: createGroupedEvents applied to bounded event sequences.      *)
(***************************************************************************)
\* The title of the i-th event of an input sequence: i tokens, so that the
\* segments of different events are told apart.
Title(i) == [k \in 1..i |-> "e"]

\* Event instants range over days 1..MaxDay+1 (day 0 is left free so that a
\* negative zone offset never yields a negative wall-clock reading).
FirstTick == TicksPerDay

LastTick == (MaxDay + 2) * TicksPerDay - 1

UtcISO(tick) == [loc |-> tick, off |-> 0]

\* Events anywhere in days 1..MaxDay+1, the end before, at or after the start.
WideEvents ==
    {[title |-> <<>>, start |-> UtcISO(s), end |-> UtcISO(e),
      description |-> <<>>, isAllDay |-> a] :
        s \in FirstTick..LastTick, e \in FirstTick..LastTick, a \in BOOLEAN}

\* Events that start on day 2: all-day and timed ones of no duration, and
\* timed ones that last one day.
NarrowEvents ==
    {[title |-> <<>>, start |-> UtcISO(s), end |-> UtcISO(s),
      description |-> <<>>, isAllDay |-> a] : s \in NowSet, a \in BOOLEAN}
    \cup {[title |-> <<>>, start |-> UtcISO(s), end |-> UtcISO(s + TicksPerDay),
            description |-> <<>>, isAllDay |-> FALSE] : s \in NowSet}

WithTitles(evts) == [i \in DOMAIN evts |-> [evts[i] EXCEPT !.title = Title(i)]]

InitGroup ==
    /\ pc = "group"
    /\ env = NoEnv
    /\ request = [NoRequest EXCEPT !.url = CalendarUrl]
    /\ icsText = <<>>
    /\ response = NoResponse
    /\ trace = <<>>
    /\ \/ /\ events \in {WithTitles(<<e>>) : e \in WideEvents}
          /\ nowTs \in NowSet
          /\ days \in 1..MaxDays
          /\ timezone \in Zones
       \/ /\ events \in {WithTitles(es) :
                           es \in UNION {[1..n -> NarrowEvents] : n \in 2..MaxEvents}}
          /\ nowTs = 2 * TicksPerDay + 1
          /\ days = MaxDays
          /\ timezone \in Zones

ApplyGroup ==
    /\ pc = "group"
    /\ pc' = "grouped"
    /\ response' = [status |-> 200, kind |-> "agenda", error |-> <<>>,
                    body |-> createGroupedEvents(events, days, timezone,
                                                 request.url, nowTs)]
    /\ UNCHANGED <<env, request, nowTs, days, timezone, icsText, events, trace>>

NextGroup == ApplyGroup

SpecGroup == InitGroup /\ [][NextGroup]_vars

(***************************************************************************)
(* Notions the claims about the agenda are stated in.                      *)
(***************************************************************************)
Agenda == response.body.agenda

\* Start-of-day of today in the target timezone, and the end of the horizon.
WindowStart == startOfDay(setZone(DateTimeNow(nowTs), timezone))

WindowEnd == plusDays(WindowStart, days)

ResolvedStart(e) == setZone(fromISO(e.start), timezone)

ResolvedEnd(e) == setZone(fromISO(e.end), timezone)

BucketDates == {Agenda[k].date : k \in DOMAIN Agenda}

SegmentsOn(d) ==
    IF d \in BucketDates
    THEN Agenda[CHOOSE k \in DOMAIN Agenda : Agenda[k].date = d].events
    ELSE <<>>

SegmentsOf(title, d) ==
    {i \in DOMAIN SegmentsOn(d) : SegmentsOn(d)[i].title = title}

Kept(e) ==
    /\ ~(ResolvedEnd(e).ts < WindowStart.ts)
    /\ ~(ResolvedStart(e).ts > WindowEnd.ts)

\* C3 (window exclusivity): an event whose zone-converted end is before
\* windowStart, or whose start is after windowEnd, has no DaySegment in any
\* bucket of the agenda.
C3_WindowExclusivity ==
    response.kind = "agenda" =>
        \A i \in DOMAIN events :
            ~Kept(events[i]) =>
                \A d \in BucketDates : SegmentsOf(events[i].title, d) = {}

\* An agenda was built from an event that starts after windowEnd, and it
\* is empty.
C3_Witness ==
    /\ response.kind = "agenda"
    /\ \E i \in DOMAIN events :
          /\ ResolvedStart(events[i]).ts > WindowEnd.ts
          /\ ResolvedEnd(events[i]).ts > WindowEnd.ts
    /\ Agenda = <<>>

\* The dates of a multi-day event that get a segment: its first day, and
\* every later day up to its end date whose start-of-day is before windowEnd.
ClippedRange(e) ==
    {d \in toISODate(ResolvedStart(e)) .. toISODate(ResolvedEnd(e)) :
        \/ d = toISODate(ResolvedStart(e))
        \/ startOfDay(plusDays(ResolvedStart(e),
                               d - toISODate(ResolvedStart(e)))).ts < WindowEnd.ts}

SegmentTimesOk(e, d, seg) ==
    LET D0 == toISODate(ResolvedStart(e))
        Dn == toISODate(ResolvedEnd(e))
    IN  /\ seg.crossDay = TRUE
        /\ seg.start.off = ZoneOffset(timezone)
        /\ seg.end.off = ZoneOffset(timezone)
        /\ seg.start.loc = IF d = D0 THEN LocalTick(ResolvedStart(e))
                           ELSE d * TicksPerDay
        /\ seg.end.loc = IF d = Dn THEN LocalTick(ResolvedEnd(e))
                         ELSE d * TicksPerDay + (TicksPerDay - 1)

\* C4 (segment coverage): a kept event whose start and end fall on different
\* calendar dates D0..Dn has exactly one DaySegment on every date of the
\* clipped range and none elsewhere, all with crossDay = TRUE; the first day
\* keeps the original start and ends at 23:59:59, middle days run 00:00:00
\* to 23:59:59, the last day starts at 00:00:00 and keeps the original end.
C4_SegmentCoverage ==
    response.kind = "agenda" =>
        \A i \in DOMAIN events :
            LET e == events[i]
            IN  (Kept(e) /\ toISODate(ResolvedStart(e)) < toISODate(ResolvedEnd(e))) =>
                    /\ \A d \in ClippedRange(e) :
                          /\ Cardinality(SegmentsOf(e.title, d)) = 1
                          /\ \A k \in SegmentsOf(e.title, d) :
                                SegmentTimesOk(e, d, SegmentsOn(d)[k])
                    /\ \A d \in BucketDates \ ClippedRange(e) :
                          SegmentsOf(e.title, d) = {}

\* A kept event spans at least three dates, all of them in the agenda.
C4_Witness ==
    /\ response.kind = "agenda"
    /\ \E i \in DOMAIN events :
          LET e == events[i]
          IN  /\ Kept(e)
              /\ toISODate(ResolvedEnd(e)) >= toISODate(ResolvedStart(e)) + 2
              /\ toISODate(ResolvedEnd(e)) \in ClippedRange(e)
              /\ ClippedRange(e) \subseteq BucketDates

\* C5 (sort invariant): in every bucket all isFullDay segments precede all
\* others, and the others are in non-decreasing order of start instant.
C5_SortInvariant ==
    response.kind = "agenda" =>
        \A k \in DOMAIN Agenda :
            LET segs == Agenda[k].events
            IN  \A i, j \in DOMAIN segs :
                    i < j =>
                        /\ ~(~segs[i].isFullDay /\ segs[j].isFullDay)
                        /\ (~segs[i].isFullDay /\ ~segs[j].isFullDay) =>
                              fromISO(segs[i].start).ts <= fromISO(segs[j].start).ts

\* A bucket was sorted whose input had a timed segment before an all-day
\* one and a later start before an earlier one.
C5_Witness ==
    /\ response.kind = "agenda"
    /\ Len(events) >= 3
    /\ ~events[1].isAllDay /\ events[2].isAllDay /\ ~events[3].isAllDay
    /\ fromISO(events[3].start).ts < fromISO(events[1].start).ts
    /\ \E k \in DOMAIN Agenda : Len(Agenda[k].events) >= 3

\* C6 (only events from the start cutoff forward): every bucket of the
\* agenda is dated on or after the date of windowStart.
C6_NoBucketBeforeWindowStart ==
    response.kind = "agenda" =>
        \A d \in BucketDates : d >= toISODate(WindowStart)

\* C7 (the days horizon): no bucket is dated beyond windowStart + days, and
\* the agenda holds no more buckets than the days requested.
C7_HorizonRespected ==
    response.kind = "agenda" =>
        /\ \A d \in BucketDates : d <= toISODate(WindowEnd)
        /\ Len(Agenda) <= days

(***************************************************************************)
(* Claims about the handler, the key validation and the parser.            *)
(***************************************************************************)
Validated == trace # <<>> /\ trace[1] = "validateApiKey:true"

ValidationThrew == trace # <<>> /\ trace[1] = "validateApiKey:throw"

\* C1 (validation before the core): the feed is fetched, parsed and grouped,
\* and a CORS preflight is answered, only after validateApiKey returned true
\* for the request; when validateApiKey throws, the response is 401 for the
\* "no key provided" error and 403 for any other, and nothing else is done.
C1_ValidationFirst ==
    /\ \A i \in DOMAIN trace :
          trace[i] \in {"fetch", "parseICS", "createGroupedEvents", "preflight"}
              => (i > 1 /\ Validated)
    /\ response.kind \in {"agenda", "preflight"} => Validated
    /\ (pc \in {"authorized", "fetched"} \/ icsText # <<>>) => Validated
    /\ ValidationThrew =>
          /\ trace = <<"validateApiKey:throw">>
          /\ response.kind = "error"
          /\ response.status \in {401, 403}
          /\ response.status = 401 <=> response.error = NoKeyMessage
          /\ icsText = <<>> /\ events = <<>>

\* In production a request with a correctly signed key got its agenda, after
\* validation, fetch, parse and grouping in that order.
C1_Witness ==
    /\ ~IsDevelopment(env)
    /\ request.headerKey # <<>>
    /\ response.kind = "agenda"
    /\ trace = <<"validateApiKey:true", "fetch", "parseICS", "createGroupedEvents">>

\* The key validateApiKey looks at: the header's, else the URL parameter's.
EffectiveKey == IF request.headerKey # <<>> THEN request.headerKey ELSE request.paramKey

KeyWellFormed(key) ==
    LET parts == SplitStr(key, "_")
    IN  /\ Len(parts) = 4
        /\ parts[1] = <<"stucal">>
        /\ Len(parts[3]) = 1
        /\ parts[3][1] \in ExpiryDates
        /\ DayOfExpiry(parts[3][1]) >= toISODate(DateTimeNow(nowTs))
        /\ parts[4] = HmacSha256Hex8(Slice(env.MASTER_KEY, 3),
                                     parts[1] \o <<"_">> \o parts[2] \o <<"_">> \o parts[3])

StartFromIsDate == Len(request.startFrom) = 1 /\ request.startFrom[1] \in ExpiryDates

StartFromWindowStart ==
    DateTimeOf(DayOfExpiry(request.startFrom[1]) * TicksPerDay - ZoneOffset(timezone),
               timezone)

\* C8 (startFrom): when startFrom is a valid ISO calendar date, windowStart is
\* the start-of-day of that date in the target timezone, the filtering uses
\* it instead of today, and the response metadata echoes it as
\* request.startFrom.
C8_StartFromHonoured ==
    (response.kind = "agenda" /\ StartFromIsDate) =>
        /\ "startFrom" \in DOMAIN response.body.request
        /\ response.body.request.startFrom = toISO(StartFromWindowStart)
        /\ \A i \in DOMAIN events :
              LET inWindow ==
                    /\ ~(ResolvedEnd(events[i]).ts < StartFromWindowStart.ts)
                    /\ ~(ResolvedStart(events[i]).ts >
                            plusDays(StartFromWindowStart, days).ts)
              IN  inWindow <=>
                    \E d \in BucketDates : SegmentsOf(events[i].title, d) # {}

\* C9 (bad feed URL): an authenticated request whose url parameter is missing
\* or is not a valid URL is answered with status 400 and a body that has an
\* 'error' property, never with an agenda.
C9_BadUrlIs400 ==
    (/\ pc = "done"
     /\ Validated
     /\ request.method # "OPTIONS"
     /\ (request.url = <<>> \/ ~IsValidUrl(request.url))) =>
        /\ response.status = 400
        /\ response.kind = "error"
        /\ response.error # <<>>

\* Line unfolding as the specification states it: a physical line that begins
\* with a space or a tab continues the preceding logical line, its first
\* character stripped; with no preceding line it is dropped.
RECURSIVE Unfold(_, _, _)
Unfold(lines, i, logical) ==
    IF i > Len(lines) THEN logical
    ELSE IF lines[i] # <<>> /\ lines[i][1] \in {" ", "TAB"}
    THEN Unfold(lines, i + 1,
                IF logical = <<>> THEN logical
                ELSE [logical EXCEPT ![Len(logical)] = @ \o Tail(lines[i])])
    ELSE Unfold(lines, i + 1, Append(logical, lines[i]))

\* C10 (line unfolding): parsing a feed gives the events of the same feed
\* with every wrapped property written on one line.
C10_UnfoldedBeforeParsing ==
    pc = "parsed" =>
        events = parseICS(JoinLines(Unfold(SplitLines(icsText), 1, <<>>), <<"LF">>, 1),
                          nowTs)

\* C11 (exclusive window end): an event that starts exactly at windowEnd
\* (start = windowStart + days) has no DaySegment in the agenda, and no
\* bucket dated windowStart + days is created for it.
C11_StartAtWindowEndExcluded ==
    response.kind = "agenda" =>
        \A i \in DOMAIN events :
            ResolvedStart(events[i]).ts = WindowEnd.ts =>
                /\ \A d \in BucketDates : SegmentsOf(events[i].title, d) = {}
                /\ (Len(events) = 1 => toISODate(WindowEnd) \notin BucketDates)

(***************************************************************************)
(* Claims about event assembly, stated on the lines of the feed.           *)
(***************************************************************************)
FeedLines == SplitLines(icsText)

IsBeginLine(line) == StartsWith(line, <<"BEGIN", ":", "VEVENT">>)

IsEndLine(line) == ~IsBeginLine(line) /\ StartsWith(line, <<"END", ":", "VEVENT">>)

\* The END:VEVENT lines reached while an accumulator is open: a BEGIN:VEVENT
\* comes before, with no END:VEVENT in between.
EmittingEnds ==
    {j \in DOMAIN FeedLines :
        /\ IsEndLine(FeedLines[j])
        /\ \E b \in 1..(j - 1) :
              /\ IsBeginLine(FeedLines[b])
              /\ \A k \in (b + 1)..(j - 1) : ~IsEndLine(FeedLines[k])}

NthEnd(n) ==
    CHOOSE j \in EmittingEnds : Cardinality({x \in EmittingEnds : x <= j}) = n

\* The most recent BEGIN:VEVENT before line j.
BlockStart(j) ==
    CHOOSE b \in 1..(j - 1) :
        /\ IsBeginLine(FeedLines[b])
        /\ \A k \in (b + 1)..(j - 1) : ~IsBeginLine(FeedLines[k])

FirstColon(line) ==
    CHOOSE c \in DOMAIN line : line[c] = ":" /\ \A k \in 1..(c - 1) : line[k] # ":"

\* A property line: a non-empty name part, then ':'.
IsPropertyLine(line) ==
    /\ \E c \in DOMAIN line : line[c] = ":"
    /\ FirstColon(line) > 1

FirstSemicolonOrColon(line) ==
    CHOOSE c \in DOMAIN line :
        line[c] \in {":", ";"} /\ \A k \in 1..(c - 1) : line[k] \notin {":", ";"}

PropertyName(line) == Trim(SubSeq(line, 1, FirstSemicolonOrColon(line) - 1))

PropertyValue(line) == Trim(SubSeq(line, FirstColon(line) + 1, Len(line)))

\* The lines of the block closed at line j that set the property `name`.
Occurrences(j, name) ==
    {k \in (BlockStart(j) + 1)..(j - 1) :
        IsPropertyLine(FeedLines[k]) /\ PropertyName(FeedLines[k]) = name}

LastValue(j, name) ==
    IF Occurrences(j, name) = {} THEN <<>>
    ELSE PropertyValue(FeedLines[CHOOSE k \in Occurrences(j, name) :
                                    \A x \in Occurrences(j, name) : x <= k])

\* C12 (event assembly): parseICS emits exactly one event for each END:VEVENT
\* reached while an accumulator is open (so lines outside a block and a
\* BEGIN:VEVENT without END:VEVENT yield nothing), and each emitted event
\* holds, for every property, the value of its last occurrence since the
\* most recent BEGIN:VEVENT.
C12_EventAssembly ==
    pc = "parsed" =>
        /\ Len(events) = Cardinality(EmittingEnds)
        /\ \A n \in DOMAIN events :
              LET j == NthEnd(n)
                  dtstart == LastValue(j, <<"DTSTART">>)
                  dtend == LastValue(j, <<"DTEND">>)
              IN  /\ events[n].title = LastValue(j, <<"SUMMARY">>)
                  /\ events[n].description = LastValue(j, <<"DESCRIPTION">>)
                  /\ events[n].start =
                        toISO(parseICSDate(dtstart, events[n].isAllDay, nowTs))
                  /\ events[n].end =
                        toISO(parseICSDate(IF dtend # <<>> THEN dtend ELSE dtstart,
                                           events[n].isAllDay, nowTs))

\* One event was emitted from a block that sets SUMMARY to a and then to b.
C12_Witness ==
    /\ pc = "parsed"
    /\ Len(events) = 1
    /\ Cardinality(Occurrences(NthEnd(1), <<"SUMMARY">>)) = 2
    /\ events[1].title = <<"b">>

\* The parameters of a property line: the ';'-separated pieces between its
\* name and the first ':'.
Parameters(line) ==
    LET pieces == SplitStr(SubSeq(line, 1, FirstColon(line) - 1), ";")
    IN  {pieces[i] : i \in 2..Len(pieces)}

\* C13 (all-day marking): an emitted event has isAllDay = TRUE exactly when
\* some property line of its block carries the parameter VALUE=DATE; a line
\* carrying another VALUE parameter, such as VALUE=DATE-TIME, does not mark it.
C13_AllDayExactlyOnValueDate ==
    pc = "parsed" =>
        \A n \in DOMAIN events :
            events[n].isAllDay <=>
                \E k \in (BlockStart(NthEnd(n)) + 1)..(NthEnd(n) - 1) :
                    /\ IsPropertyLine(FeedLines[k])
                    /\ <<"VALUE=DATE">> \in Parameters(FeedLines[k])

\* C14 (positive horizon): the horizon the agenda is built with is a positive
\* integer, an absent, non-numeric, zero or negative days parameter having
\* been replaced by the default 7, so windowEnd is after windowStart.
C14_HorizonPositive ==
    response.kind = "agenda" =>
        /\ days > 0
        /\ WindowEnd.ts > WindowStart.ts
        /\ (parseInt(request.days).nan \/ parseInt(request.days).n <= 0
              => days = DefaultDays)

(***************************************************************************)
(* Claims about the order of the segments within a bucket.                 *)
(***************************************************************************)
\* The buckets in encounter order: the segments as the event loop pushed
\* them, before the per-bucket sort.
Encountered == GroupAll(EmptyGrouped, events, 1, WindowStart, WindowEnd, timezone)

StartTs(seg) == fromISO(seg.start).ts

AllDayOf(segs) ==
    LET Test(seg) == seg.isFullDay
    IN  SelectSeq(segs, Test)

\* The segments of one kind that start at the instant ts, in the order of segs.
StartingAt(segs, fullDay, ts) ==
    LET Test(seg) == seg.isFullDay = fullDay /\ StartTs(seg) = ts
    IN  SelectSeq(segs, Test)

StartInstants(segs) == {StartTs(segs[i]) : i \in DOMAIN segs}

\* C15 as stated (stable where the spec demands it): in every bucket the
\* all-day segments are in encounter order, not reordered by start instant,
\* and timed segments with equal start instants are in encounter order.
C15_EncounterOrderKept ==
    response.kind = "agenda" =>
        \A k \in DOMAIN Agenda :
            LET segs == Agenda[k].events
                enc == Encountered[Agenda[k].date]
            IN  /\ AllDayOf(segs) = AllDayOf(enc)
                /\ \A ts \in StartInstants(enc) :
                      StartingAt(segs, FALSE, ts) = StartingAt(enc, FALSE, ts)

\* C15 as amended: in every bucket the all-day segments are in non-decreasing
\* order of start instant, and two segments of the same kind (both all-day or
\* both timed) with exactly equal start instants are in encounter order.
C15_StableWithinKind ==
    response.kind = "agenda" =>
        \A k \in DOMAIN Agenda :
            LET segs == Agenda[k].events
                enc == Encountered[Agenda[k].date]
            IN  /\ Len(segs) = Len(enc)
                /\ \A i, j \in DOMAIN segs :
                      (i < j /\ segs[i].isFullDay /\ segs[j].isFullDay)
                          => StartTs(segs[i]) <= StartTs(segs[j])
                /\ \A ts \in StartInstants(enc), fullDay \in BOOLEAN :
                      StartingAt(segs, fullDay, ts) = StartingAt(enc, fullDay, ts)

\* A bucket was sorted whose input had a later-starting all-day segment before
\* an earlier-starting one, and two different segments of one kind with the
\* same start instant.
C15_Witness ==
    /\ response.kind = "agenda"
    /\ \E k \in DOMAIN Agenda :
          LET enc == Encountered[Agenda[k].date]
          IN  /\ \E i, j \in DOMAIN enc :
                    /\ i < j
                    /\ enc[i].isFullDay /\ enc[j].isFullDay
                    /\ StartTs(enc[j]) < StartTs(enc[i])
              /\ \E i, j \in DOMAIN enc :
                    /\ i < j
                    /\ enc[i].isFullDay = enc[j].isFullDay
                    /\ StartTs(enc[i]) = StartTs(enc[j])
                    /\ enc[i] # enc[j]

====
